---- MODULE Spec2Model ----
(***************************************************************************)
(* Verification model of mcpd-plugins-sdk-go.                              *)
(*                                                                         *)
(*  - Serve (pkg/plugins/v1/plugins/server.go): the main flow of Serve,    *)
(*    the signal-handling goroutine it starts, the operating system        *)
(*    delivering SIGINT/SIGTERM, and the calls the gRPC server dispatches. *)
(*    Specifications Spec and FairSpec.                                    *)
(*  - BasePlugin (base.go): the eight default methods, called from Go      *)
(*    goroutines on one BasePlugin instance, with the heap objects         *)
(*    (header maps, body byte slices) the messages point to.               *)
(*    Specification PluginSpec.                                            *)
(***************************************************************************)
EXTENDS Integers, Sequences, FiniteSets, TLC

\* ------------------------------------------------------------------ bounds
\* Signals the operating system delivers during one run of Serve.
MaxSignals == 2
\* Calls the gRPC server accepts during one run of Serve.
MaxCalls == 2
\* Body bytes range over 0..MaxByte.
MaxByte == 1

VARIABLES
    \* ---- Serve (server.go)
    address,      \* --address flag value ("" when the flag is absent)
    network,      \* --network flag value
    busy,         \* environment: the address is already in use (unix: the path exists)
    pc,           \* position of the main flow of Serve
    err,          \* error value Serve returns ("nil" for nil)
    lis,          \* the listener: "none" | "open" | "closed"
    sockFile,     \* the unix socket path exists in the filesystem
    deferred,     \* the deferred os.Remove(address) is registered
    registered,   \* RegisterPluginServer(grpcServer, impl) has run
    gpc,          \* position of the signal-handling goroutine
    sigCh,        \* number of signals buffered in sigCh (capacity 1)
    srvServing,   \* grpcServer: the accept loop of Serve runs on lis (lis is in s.lis)
    srvQuit,      \* grpcServer: GracefulStop has begun (s.quit fired, s.lis = nil)
    srvDone,      \* grpcServer: GracefulStop has finished (s.done fired)
    calls,        \* status of each call: "none" | "running" | "hung" | "finished"
    nsig,         \* signals delivered so far
    atStop,       \* history: the calls in flight when GracefulStop began
    \* ---- BasePlugin (base.go) and the goroutines that call it
    b,            \* the BasePlugin value the methods are called on
    heap,         \* contents of the header maps and body slices, by reference
    input,        \* the message each caller passes (its fields; maps and slices by reference)
    frame,        \* the mediation call each caller has in progress, or "idle"
    verdict,      \* the message the last mediation call returned to each caller
    ret,          \* result of the last lifecycle, probe or query call
    configured,   \* history: Configure was called
    stopped,      \* history: Stop was called
    capsLog,      \* history: the first and the latest result of GetCapabilities
    overlap,      \* history: callers whose current or last call ran while another call was running
    lastWrite     \* history: the last in-place write of a caller, and what was read before it

serveVars == <<address, network, busy, pc, err, lis, sockFile, deferred,
               registered, gpc, sigCh, srvServing, srvQuit, srvDone, calls, nsig, atStop>>

pluginVars == <<b, heap, input, frame, verdict, ret, configured, stopped, capsLog,
                overlap, lastWrite>>

vars == <<serveVars, pluginVars>>

Addresses == {"", "/tmp/plugin.sock"}
Networks  == {"unix", "tcp"}
CallIds   == 1..MaxCalls

\* The process is running: Serve has not returned and the process was not
\* terminated by a signal.
Alive == pc \notin {"returned", "killed"}

\* Calls the server has accepted and that have not completed.
InFlight == {c \in CallIds : calls[c] \in {"running", "hung"}}

\* signal.Notify has been called: SIGINT/SIGTERM are relayed to sigCh instead
\* of terminating the process.
HandlerInstalled == gpc \notin {"none", "notify"}

\* The goroutine has received a signal from sigCh.
SignalCaught == gpc \in {"stop", "drain", "done"}

\* Closing a listener that net.Listen created for a unix socket unlinks the
\* socket path (net.UnixListener unlinks on close by default).
FileAfterClose(f) == IF network = "unix" THEN FALSE ELSE f

\* ------------------------------------------------------------ Serve: Init
ServeInit ==
    /\ address \in Addresses
    /\ network \in Networks
    /\ busy \in BOOLEAN
    /\ pc = "check"
    /\ err = "nil"
    /\ lis = "none"
    /\ sockFile = (busy /\ network = "unix" /\ address # "")
    /\ deferred = FALSE
    /\ registered = FALSE
    /\ gpc = "none"
    /\ sigCh = 0
    /\ srvServing = FALSE
    /\ srvQuit = FALSE
    /\ srvDone = FALSE
    /\ calls = [c \in CallIds |-> "none"]
    /\ nsig = 0
    /\ atStop = {}

\* The check of the address left out: Serve goes on to net.Listen.
AddressMissing_Never(a) == FALSE

\* server.go:38 - the address flag is required.
AddressMissing(a) == a = ""

\* server.go:36-40 - flag.Parse, then the check of the address.
CheckAddress ==
    /\ pc = "check"
    /\ IF AddressMissing(address)
       THEN /\ err' = "address_required"
            /\ pc' = "returned"
       ELSE /\ pc' = "listen"
            /\ err' = err
    /\ UNCHANGED <<address, network, busy, lis, sockFile, deferred, registered,
                   gpc, sigCh, srvServing, srvQuit, srvDone, calls, nsig, atStop, pluginVars>>

\* server.go:42-45 - net.Listen(network, address); fails when the address is
\* in use, and then Serve returns before the deferred removal is registered.
Listen ==
    /\ pc = "listen"
    /\ IF busy
       THEN /\ err' = "failed_to_listen"
            /\ pc' = "returned"
            /\ UNCHANGED <<lis, sockFile>>
       ELSE /\ lis' = "open"
            /\ sockFile' = (network = "unix")
            /\ pc' = "defer"
            /\ err' = err
    /\ UNCHANGED <<address, network, busy, deferred, registered,
                   gpc, sigCh, srvServing, srvQuit, srvDone, calls, nsig, atStop, pluginVars>>

\* server.go:47-50 - defer os.Remove(address) for network unix.
DeferRemove ==
    /\ pc = "defer"
    /\ deferred' = (network = "unix")
    /\ pc' = "register"
    /\ UNCHANGED <<address, network, busy, err, lis, sockFile, registered,
                   gpc, sigCh, srvServing, srvQuit, srvDone, calls, nsig, atStop, pluginVars>>

\* server.go:52-53 - grpc.NewServer and RegisterPluginServer.
Register ==
    /\ pc = "register"
    /\ registered' = TRUE
    /\ pc' = "spawn"
    /\ UNCHANGED <<address, network, busy, err, lis, sockFile, deferred,
                   gpc, sigCh, srvServing, srvQuit, srvDone, calls, nsig, atStop, pluginVars>>

\* server.go:56 - the go statement: the goroutine exists, it has not run yet.
SpawnHandler ==
    /\ pc = "spawn"
    /\ gpc' = "notify"
    /\ pc' = "serve"
    /\ UNCHANGED <<address, network, busy, err, lis, sockFile, deferred,
                   registered, sigCh, srvServing, srvQuit, srvDone, calls, nsig, atStop, pluginVars>>

\* server.go:64-67 - grpcServer.Serve(lis) is entered.  A server on which
\* GracefulStop was already called closes lis and returns ErrServerStopped;
\* otherwise the server tracks lis and accepts on it.
ServeStart ==
    /\ pc = "serve"
    /\ IF srvQuit
       THEN /\ lis' = "closed"
            /\ sockFile' = FileAfterClose(sockFile)
            /\ err' = "failed_to_serve"
            /\ pc' = "defers"
            /\ UNCHANGED srvServing
       ELSE /\ srvServing' = TRUE
            /\ pc' = "serving"
            /\ UNCHANGED <<lis, sockFile, err>>
    /\ UNCHANGED <<address, network, busy, deferred, registered,
                   gpc, sigCh, srvQuit, srvDone, calls, nsig, atStop, pluginVars>>

\* server.go:65 - the accept loop of grpcServer.Serve ends when GracefulStop
\* has closed the listener.
ServeLoopExit ==
    /\ pc = "serving"
    /\ lis = "closed"
    /\ srvQuit
    /\ srvServing' = FALSE
    /\ pc' = "serveWait"
    /\ UNCHANGED <<address, network, busy, err, lis, sockFile, deferred,
                   registered, gpc, sigCh, srvQuit, srvDone, calls, nsig, atStop, pluginVars>>

\* grpcServer.Serve returning as soon as its accept loop has ended, without
\* waiting for GracefulStop to finish.
ServeReturn_NoWait ==
    /\ pc = "serveWait"
    /\ err' = "nil"
    /\ pc' = "defers"
    /\ UNCHANGED <<address, network, busy, lis, sockFile, deferred,
                   registered, gpc, sigCh, srvServing, srvQuit, srvDone, calls, nsig,
                   atStop, pluginVars>>

\* server.go:65 - grpcServer.Serve blocks until GracefulStop has finished,
\* and then returns nil.
ServeReturn ==
    /\ pc = "serveWait"
    /\ srvDone
    /\ err' = "nil"
    /\ pc' = "defers"
    /\ UNCHANGED <<address, network, busy, lis, sockFile, deferred,
                   registered, gpc, sigCh, srvServing, srvQuit, srvDone, calls, nsig, atStop, pluginVars>>

\* server.go:49 and 66-69 - the return statement runs the deferred
\* os.Remove(address), whose error is dropped.
RunDefers ==
    /\ pc = "defers"
    /\ sockFile' = IF deferred THEN FALSE ELSE sockFile
    /\ pc' = "returned"
    /\ UNCHANGED <<address, network, busy, err, lis, deferred,
                   registered, gpc, sigCh, srvServing, srvQuit, srvDone, calls, nsig, atStop, pluginVars>>

\* ------------------------------------------- the signal-handling goroutine
\* server.go:57 - capacity of sigCh.
SigChCap == 1

\* server.go:57-58 - make(chan os.Signal, 1) and signal.Notify.
Notify ==
    /\ Alive
    /\ gpc = "notify"
    /\ gpc' = "wait"
    /\ UNCHANGED <<address, network, busy, pc, err, lis, sockFile, deferred,
                   registered, sigCh, srvServing, srvQuit, srvDone, calls, nsig, atStop, pluginVars>>

\* server.go:59-60 - <-sigCh, then the log line.
ReceiveSignal ==
    /\ Alive
    /\ gpc = "wait"
    /\ sigCh > 0
    /\ sigCh' = sigCh - 1
    /\ gpc' = "stop"
    /\ UNCHANGED <<address, network, busy, pc, err, lis, sockFile, deferred,
                   registered, srvServing, srvQuit, srvDone, calls, nsig, atStop, pluginVars>>

\* server.go:61 - grpcServer.GracefulStop() begins: the server is marked as
\* stopping, which ends the acceptance of new connections and calls, and the
\* listeners the server tracks are closed at once.
GracefulStopBegin ==
    /\ Alive
    /\ gpc = "stop"
    /\ srvQuit' = TRUE
    /\ IF srvServing
       THEN /\ lis' = "closed"
            /\ sockFile' = FileAfterClose(sockFile)
       ELSE UNCHANGED <<lis, sockFile>>
    /\ gpc' = "drain"
    /\ atStop' = InFlight
    /\ UNCHANGED <<address, network, busy, pc, err, deferred,
                   registered, sigCh, srvServing, srvDone, calls, nsig, pluginVars>>

\* Stop in place of GracefulStop: pending calls are not waited for.
StopMayFinish_NoDrain == ~srvServing

\* GracefulStop may finish: the accept loop has ended and no call is pending.
\* There is no timeout on this wait.
StopMayFinish == ~srvServing /\ InFlight = {}

\* server.go:61 - grpcServer.GracefulStop() blocks until the accept loop has
\* ended and every pending call has finished, then returns.
GracefulStopEnd ==
    /\ Alive
    /\ gpc = "drain"
    /\ StopMayFinish
    /\ srvDone' = TRUE
    /\ gpc' = "done"
    /\ UNCHANGED <<address, network, busy, pc, err, lis, sockFile, deferred,
                   registered, sigCh, srvServing, srvQuit, calls, nsig, atStop, pluginVars>>

\* ------------------------------------------------------------ environment
\* The operating system delivers SIGINT or SIGTERM to the process.  With the
\* handler installed (server.go:58) the signal is sent to sigCh without
\* blocking and dropped when sigCh is full; without it the default
\* disposition terminates the process: no deferred function runs and the
\* kernel closes the listening descriptor without unlinking the socket path.
Signal ==
    /\ Alive
    /\ nsig < MaxSignals
    /\ nsig' = nsig + 1
    /\ IF HandlerInstalled
       THEN /\ sigCh' = IF sigCh < SigChCap THEN sigCh + 1 ELSE sigCh
            /\ UNCHANGED <<pc, lis>>
       ELSE /\ pc' = "killed"
            /\ lis' = IF lis = "open" THEN "closed" ELSE lis
            /\ UNCHANGED sigCh
    /\ UNCHANGED <<address, network, busy, err, sockFile, deferred,
                   registered, gpc, srvServing, srvQuit, srvDone, calls, atStop, pluginVars>>

\* The server accepts calls while it serves and GracefulStop has not begun.
Accepting == pc = "serving" /\ lis = "open" /\ srvServing /\ ~srvQuit /\ registered

\* server.go:65 - the server accepts a call of the host and dispatches it to
\* impl.  Serve takes any PluginServer: the call either completes or never does.
AcceptCall(c, hangs) ==
    /\ Accepting
    /\ calls[c] = "none"
    /\ \A d \in CallIds : d < c => calls[d] # "none"
    /\ calls' = [calls EXCEPT ![c] = IF hangs THEN "hung" ELSE "running"]
    /\ UNCHANGED <<address, network, busy, pc, err, lis, sockFile, deferred,
                   registered, gpc, sigCh, srvServing, srvQuit, srvDone, nsig, atStop, pluginVars>>

\* The method of impl returns and the server sends the reply.
FinishCall(c) ==
    /\ Alive
    /\ calls[c] = "running"
    /\ calls' = [calls EXCEPT ![c] = "finished"]
    /\ UNCHANGED <<address, network, busy, pc, err, lis, sockFile, deferred,
                   registered, gpc, sigCh, srvServing, srvQuit, srvDone, nsig, atStop, pluginVars>>

MainStep ==
    \/ CheckAddress
    \/ Listen
    \/ DeferRemove
    \/ Register
    \/ SpawnHandler
    \/ ServeStart
    \/ ServeLoopExit
    \/ ServeReturn
    \/ RunDefers

HandlerStep ==
    \/ Notify
    \/ ReceiveSignal
    \/ GracefulStopBegin
    \/ GracefulStopEnd

\* ------------------------------------------------------ BasePlugin: data
Callers == {"g1", "g2"}
Keys    == {"a"}
Vals    == {"1"}
Bytes   == 0..MaxByte
StatusCodes == {200, 403}
Configs == {"none", "opts"}

\* Header maps: string -> string.
HeaderMaps == UNION {[d -> Vals] : d \in SUBSET Keys}
\* Bodies: byte sequences (of length at most one here).
Bodies == {<<>>} \cup {<<x>> : x \in Bytes}

\* A Go map and a Go byte slice are references to heap storage: a message
\* holds the reference, the heap holds the contents.
Ref(g, f) == <<g, f>>
\* The nil map and the nil slice: they read as empty and cannot be written.
NilRef == <<"nil", "nil">>
Refs == {Ref(g, f) : g \in Callers, f \in {"headers", "body"}} \cup {NilRef}
\* No message: a caller holds no input, or no verdict.
NoMsg == [none |-> TRUE]
\* No result yet.
NoRet == [op |-> "none"]
\* No in-place write since the caller last built a message or entered a call.
NoWrite == [via |-> "none"]

\* base.go:46-48 - BasePlugin has one field, the embedded (empty)
\* UnimplementedPluginServer.
BasePlugin == [UnimplementedPluginServer |-> "struct{}"]

\* &emptypb.Empty{}
Empty == "Empty{}"
\* base.go:62 - &Metadata{}: every field has its zero value.
EmptyMetadata == [name |-> "", version |-> "", description |-> ""]
\* base.go:67 - &Capabilities{}: no flows.
EmptyCapabilities == [flows |-> {}]

IsRequest(m)  == DOMAIN m = {"headers", "body"}
IsResponse(m) == DOMAIN m = {"continue", "statusCode", "headers", "body"}

\* What a holder of message m reads through its references.
Deref(h, m) == [headers |-> h[m.headers], body |-> h[m.body]]

\* ------------------------------------------- BasePlugin: the eight methods
\* Each method is given the receiver and its argument and yields the
\* receiver afterwards (recv), the returned value and the returned error.

\* base.go:50-53
Configure(recv, cfg) == [recv |-> recv, value |-> Empty, err |-> "nil"]

\* base.go:55-58
Stop(recv) == [recv |-> recv, value |-> Empty, err |-> "nil"]

\* base.go:60-63
GetMetadata(recv) == [recv |-> recv, value |-> EmptyMetadata, err |-> "nil"]

\* Flows that appear once the plugin is configured.
GetCapabilities_AfterConfigure(recv) ==
    [recv  |-> recv,
     value |-> [flows |-> IF configured THEN {"Request"} ELSE {}],
     err   |-> "nil"]

\* base.go:65-68
GetCapabilities(recv) == [recv |-> recv, value |-> EmptyCapabilities, err |-> "nil"]

\* base.go:70-73
CheckHealth(recv) == [recv |-> recv, value |-> Empty, err |-> "nil"]

\* A readiness probe that fails until Configure was called.
CheckReady_NeedsConfigure(recv) ==
    [recv  |-> recv,
     value |-> Empty,
     err   |-> IF configured THEN "nil" ELSE "not ready"]

\* base.go:75-78
CheckReady(recv) == [recv |-> recv, value |-> Empty, err |-> "nil"]

\* The body left out of the verdict.
HandleRequest_DropBody(recv, req) ==
    [recv  |-> recv,
     value |-> [continue   |-> TRUE,
                statusCode |-> 0,
                headers    |-> req.headers,
                body       |-> NilRef],
     err   |-> "nil"]

\* A plugin that keeps one header map and one body buffer for every call.
HandleRequest_Cached(recv, req) ==
    [recv  |-> recv,
     value |-> [continue   |-> TRUE,
                statusCode |-> 0,
                headers    |-> Ref("g1", "headers"),
                body       |-> Ref("g1", "body")],
     err   |-> "nil"]

\* base.go:80-88 - a new HTTPResponse whose Headers and Body are the
\* request's own map and slice (the references are copied, not the contents).
HandleRequest(recv, req) ==
    [recv  |-> recv,
     value |-> [continue   |-> TRUE,
                statusCode |-> 0,
                headers    |-> req.headers,
                body       |-> req.body],
     err   |-> "nil"]

\* The status code left at zero, as in HandleRequest.
HandleResponse_ZeroStatus(recv, resp) ==
    [recv  |-> recv,
     value |-> [continue   |-> TRUE,
                statusCode |-> 0,
                headers    |-> resp.headers,
                body       |-> resp.body],
     err   |-> "nil"]

\* The headers left out of the verdict.
HandleResponse_NilHeaders(recv, resp) ==
    [recv  |-> recv,
     value |-> [continue   |-> TRUE,
                statusCode |-> resp.statusCode,
                headers    |-> NilRef,
                body       |-> resp.body],
     err   |-> "nil"]

\* base.go:90-98
HandleResponse(recv, resp) ==
    [recv  |-> recv,
     value |-> [continue   |-> TRUE,
                statusCode |-> resp.statusCode,
                headers    |-> resp.headers,
                body       |-> resp.body],
     err   |-> "nil"]

\* ------------------------------------------------------ BasePlugin: Init
PluginInit ==
    /\ b = BasePlugin
    /\ heap = [r \in Refs |-> <<>>]
    /\ input = [g \in Callers |-> NoMsg]
    /\ frame = [g \in Callers |-> "idle"]
    /\ verdict = [g \in Callers |-> NoMsg]
    /\ ret = NoRet
    /\ configured = FALSE
    /\ stopped = FALSE
    /\ capsLog = <<>>
    /\ overlap = {}
    /\ lastWrite = NoWrite

\* --------------------------------------------- callers of the BasePlugin
\* Caller g builds an HTTPRequest: a fresh header map and a fresh body slice.
\* The verdict of an earlier call is dropped with the message it came from.
NewRequest(g, h, bd) ==
    /\ frame[g] = "idle"
    /\ input' = [input EXCEPT ![g] = [headers |-> Ref(g, "headers"),
                                      body    |-> Ref(g, "body")]]
    /\ heap' = [heap EXCEPT ![Ref(g, "headers")] = h, ![Ref(g, "body")] = bd]
    /\ verdict' = [verdict EXCEPT ![g] = NoMsg]
    /\ overlap' = overlap \ {g}
    /\ lastWrite' = NoWrite
    /\ UNCHANGED <<b, frame, ret, configured, stopped, capsLog, serveVars>>

\* Caller g builds an HTTPResponse.
NewResponse(g, sc, cont, h, bd) ==
    /\ frame[g] = "idle"
    /\ input' = [input EXCEPT ![g] = [continue   |-> cont,
                                      statusCode |-> sc,
                                      headers    |-> Ref(g, "headers"),
                                      body       |-> Ref(g, "body")]]
    /\ heap' = [heap EXCEPT ![Ref(g, "headers")] = h, ![Ref(g, "body")] = bd]
    /\ verdict' = [verdict EXCEPT ![g] = NoMsg]
    /\ overlap' = overlap \ {g}
    /\ lastWrite' = NoWrite
    /\ UNCHANGED <<b, frame, ret, configured, stopped, capsLog, serveVars>>

\* The callers with a call in progress.
Running == {g \in Callers : frame[g] # "idle"}

\* overlap, once caller g enters a call.
Overlapping(g) ==
    IF Running \ {g} = {} THEN overlap \ {g} ELSE overlap \cup Running \cup {g}

\* Caller g enters b.HandleRequest(ctx, req) with its request.
CallHandleRequest(g) ==
    /\ frame[g] = "idle"
    /\ IsRequest(input[g])
    /\ frame' = [frame EXCEPT ![g] = "HandleRequest"]
    /\ verdict' = [verdict EXCEPT ![g] = NoMsg]
    /\ overlap' = Overlapping(g)
    /\ lastWrite' = NoWrite
    /\ UNCHANGED <<b, heap, input, ret, configured, stopped, capsLog, serveVars>>

\* base.go:82-87 - the body of HandleRequest runs and returns to caller g.
ReturnHandleRequest(g) ==
    /\ frame[g] = "HandleRequest"
    /\ LET r == HandleRequest(b, input[g])
       IN  /\ b' = r.recv
           /\ verdict' = [verdict EXCEPT ![g] = [value |-> r.value, err |-> r.err]]
    /\ frame' = [frame EXCEPT ![g] = "idle"]
    /\ UNCHANGED <<heap, input, ret, configured, stopped, capsLog, overlap, lastWrite, serveVars>>

\* Caller g enters b.HandleResponse(ctx, resp) with its response.
CallHandleResponse(g) ==
    /\ frame[g] = "idle"
    /\ IsResponse(input[g])
    /\ frame' = [frame EXCEPT ![g] = "HandleResponse"]
    /\ verdict' = [verdict EXCEPT ![g] = NoMsg]
    /\ overlap' = Overlapping(g)
    /\ lastWrite' = NoWrite
    /\ UNCHANGED <<b, heap, input, ret, configured, stopped, capsLog, serveVars>>

\* base.go:92-97 - the body of HandleResponse runs and returns to caller g.
ReturnHandleResponse(g) ==
    /\ frame[g] = "HandleResponse"
    /\ LET r == HandleResponse(b, input[g])
       IN  /\ b' = r.recv
           /\ verdict' = [verdict EXCEPT ![g] = [value |-> r.value, err |-> r.err]]
    /\ frame' = [frame EXCEPT ![g] = "idle"]
    /\ UNCHANGED <<heap, input, ret, configured, stopped, capsLog, overlap, lastWrite, serveVars>>

\* The message caller g writes through: its input or the verdict it holds.
Held(g, via) == IF via = "input" THEN input[g] ELSE verdict[g].value

CanWrite(g, via) ==
    /\ frame[g] = "idle"
    /\ input[g] # NoMsg
    /\ via = "verdict" => verdict[g] # NoMsg

\* What caller g reads through its input and through its verdict.
Reads(g, via) ==
    [g       |-> g,
     via     |-> via,
     input   |-> Deref(heap, input[g]),
     verdict |-> IF verdict[g] = NoMsg THEN NoMsg ELSE Deref(heap, verdict[g].value)]

\* Caller g assigns m.Headers[k] = v, in place.
WriteHeader(g, via, k, v) ==
    /\ CanWrite(g, via)
    /\ LET r == Held(g, via).headers
           m == heap[r]
       IN  /\ r # NilRef
           /\ heap' = [heap EXCEPT ![r] =
                         [x \in DOMAIN m \cup {k} |-> IF x = k THEN v ELSE m[x]]]
    /\ lastWrite' = Reads(g, via)
    /\ UNCHANGED <<b, input, frame, verdict, ret, configured, stopped, capsLog,
                   overlap, serveVars>>

\* Caller g assigns m.Body[i] = x, in place.
WriteBody(g, via, i, x) ==
    /\ CanWrite(g, via)
    /\ LET r == Held(g, via).body
       IN  /\ r # NilRef
           /\ i \in DOMAIN heap[r]
           /\ heap' = [heap EXCEPT ![r][i] = x]
    /\ lastWrite' = Reads(g, via)
    /\ UNCHANGED <<b, input, frame, verdict, ret, configured, stopped, capsLog,
                   overlap, serveVars>>

\* A lifecycle, probe or query call returns r.
Returned(op, r) ==
    /\ b' = r.recv
    /\ ret' = [op |-> op, value |-> r.value, err |-> r.err]

CallConfigure(cfg) ==
    /\ Returned("Configure", Configure(b, cfg))
    /\ configured' = TRUE
    /\ UNCHANGED <<heap, input, frame, verdict, stopped, capsLog, overlap, lastWrite, serveVars>>

CallStop ==
    /\ Returned("Stop", Stop(b))
    /\ stopped' = TRUE
    /\ UNCHANGED <<heap, input, frame, verdict, configured, capsLog, overlap, lastWrite, serveVars>>

CallGetMetadata ==
    /\ Returned("GetMetadata", GetMetadata(b))
    /\ UNCHANGED <<heap, input, frame, verdict, configured, stopped, capsLog, overlap, lastWrite, serveVars>>

\* capsLog after one more read of the capabilities.
Logged(log, e) == IF log = <<>> THEN <<e>> ELSE <<log[1], e>>

CallGetCapabilities ==
    /\ Returned("GetCapabilities", GetCapabilities(b))
    /\ capsLog' = Logged(capsLog, [value      |-> GetCapabilities(b).value,
                                   configured |-> configured])
    /\ UNCHANGED <<heap, input, frame, verdict, configured, stopped, overlap,
                   lastWrite, serveVars>>

CallCheckHealth ==
    /\ Returned("CheckHealth", CheckHealth(b))
    /\ UNCHANGED <<heap, input, frame, verdict, configured, stopped, capsLog, overlap, lastWrite, serveVars>>

CallCheckReady ==
    /\ Returned("CheckReady", CheckReady(b))
    /\ UNCHANGED <<heap, input, frame, verdict, configured, stopped, capsLog, overlap, lastWrite, serveVars>>

\* ------------------------------------------------------- specifications
Init == ServeInit /\ PluginInit

Next ==
    \/ MainStep
    \/ HandlerStep
    \/ Signal
    \/ \E c \in CallIds, hangs \in BOOLEAN : AcceptCall(c, hangs)
    \/ \E c \in CallIds : FinishCall(c)

Spec == Init /\ [][Next]_vars

\* The scheduler runs every runnable goroutine, and a call that can complete
\* does; the environment owes neither signals nor calls.
FairSpec ==
    /\ Spec
    /\ WF_vars(MainStep)
    /\ WF_vars(HandlerStep)
    /\ \A c \in CallIds : WF_vars(FinishCall(c))

\* The BasePlugin called in process by one goroutine, outside of a run of
\* Serve: every method, and in-place writes to the messages it holds.
PluginStart ==
    /\ ServeInit
    /\ address = "/tmp/plugin.sock"
    /\ network = "unix"
    /\ busy = FALSE
    /\ PluginInit

SoloCallers == {"g1"}
Via == {"input", "verdict"}

PluginNext ==
    \/ \E g \in SoloCallers, h \in HeaderMaps, bd \in Bodies : NewRequest(g, h, bd)
    \/ \E g \in SoloCallers, sc \in StatusCodes, cont \in BOOLEAN,
          h \in HeaderMaps, bd \in Bodies : NewResponse(g, sc, cont, h, bd)
    \/ \E g \in SoloCallers : CallHandleRequest(g)
    \/ \E g \in SoloCallers : ReturnHandleRequest(g)
    \/ \E g \in SoloCallers : CallHandleResponse(g)
    \/ \E g \in SoloCallers : ReturnHandleResponse(g)
    \/ \E g \in SoloCallers, via \in Via, k \in Keys, v \in Vals :
          WriteHeader(g, via, k, v)
    \/ \E g \in SoloCallers, via \in Via, x \in Bytes : WriteBody(g, via, 1, x)
    \/ \E cfg \in Configs : CallConfigure(cfg)
    \/ CallStop
    \/ CallGetMetadata
    \/ CallGetCapabilities
    \/ CallCheckHealth
    \/ CallCheckReady

PluginSpec == PluginStart /\ [][PluginNext]_vars

\* The BasePlugin called by two goroutines at once: mediation calls in every
\* interleaving, and Stop racing them.
ConcurrentNext ==
    \/ \E g \in Callers, h \in HeaderMaps, bd \in Bodies : NewRequest(g, h, bd)
    \/ \E g \in Callers, sc \in StatusCodes, cont \in BOOLEAN,
          h \in HeaderMaps, bd \in Bodies : NewResponse(g, sc, cont, h, bd)
    \/ \E g \in Callers : CallHandleRequest(g)
    \/ \E g \in Callers : ReturnHandleRequest(g)
    \/ \E g \in Callers : CallHandleResponse(g)
    \/ \E g \in Callers : ReturnHandleResponse(g)
    \/ CallStop

ConcurrentSpec == PluginStart /\ [][ConcurrentNext]_vars

\* =================================================================== claims

\* ----------------------------------------------------------------------- C1
\* C1: whenever the default HandleRequest returns, whatever calls came
\* before, it returns no error and a verdict with continue = true,
\* statusCode = 0 and headers and body that read exactly as those of the
\* request it was given.
C1_HandleRequestPassThrough ==
    [][\A g \in Callers :
          (frame[g] = "HandleRequest" /\ frame'[g] = "idle") =>
              /\ verdict'[g].err = "nil"
              /\ verdict'[g].value.continue = TRUE
              /\ verdict'[g].value.statusCode = 0
              /\ Deref(heap', verdict'[g].value) = Deref(heap, input[g])]_vars

\* The scenario of the specification, after Configure and Stop were called:
\* headers {"a": "1"} and a one-byte body come back with continue = true and
\* statusCode 0.
C1_Witness ==
    /\ configured /\ stopped
    /\ IsRequest(input["g1"])
    /\ verdict["g1"] # NoMsg
    /\ Deref(heap, input["g1"]) = [headers |-> [k \in {"a"} |-> "1"], body |-> <<1>>]
    /\ Deref(heap, verdict["g1"].value) = Deref(heap, input["g1"])
    /\ verdict["g1"].value.continue = TRUE
    /\ verdict["g1"].value.statusCode = 0

\* ----------------------------------------------------------------------- C2
\* C2: whenever the default HandleResponse returns, it returns no error and a
\* verdict with continue = true and with the statusCode, headers and body of
\* the response it was given, whatever the continue field of that response.
C2_HandleResponsePassThrough ==
    [][\A g \in Callers :
          (frame[g] = "HandleResponse" /\ frame'[g] = "idle") =>
              /\ verdict'[g].err = "nil"
              /\ verdict'[g].value.continue = TRUE
              /\ verdict'[g].value.statusCode = input[g].statusCode
              /\ Deref(heap', verdict'[g].value) = Deref(heap, input[g])]_vars

\* A response with continue = false and status 403 came back with
\* continue = true and status 403.
C2_Witness ==
    /\ IsResponse(input["g1"])
    /\ input["g1"].continue = FALSE
    /\ input["g1"].statusCode = 403
    /\ heap[input["g1"].body] = <<1>>
    /\ verdict["g1"] # NoMsg
    /\ verdict["g1"].value.continue = TRUE
    /\ verdict["g1"].value.statusCode = 403
    /\ Deref(heap, verdict["g1"].value) = Deref(heap, input["g1"])

C4_MissingAddress ==
    address = "" =>
        /\ pc \in {"check", "returned", "killed"}
        /\ pc = "returned" => err = "address_required"
        /\ lis = "none"
        /\ ~registered
        /\ ~srvServing
        /\ \A c \in CallIds : calls[c] = "none"
        /\ gpc = "none"
        /\ ~deferred
        /\ sockFile = FALSE

\* Serve returned the error for a missing address under network tcp.
C4_Witness ==
    /\ address = ""
    /\ network = "tcp"
    /\ pc = "returned"
    /\ err = "address_required"

\* ----------------------------------------------------------------------- C5
\* C5: in every reachable state the last Configure, Stop, CheckHealth or
\* CheckReady call has succeeded, and no call ever changes the BasePlugin
\* value, the only state a later call could observe.
C5_LifecycleAlwaysSucceeds ==
    /\ [](ret.op \in {"Configure", "Stop", "CheckHealth", "CheckReady"} =>
             (ret.err = "nil" /\ ret.value = Empty))
    /\ [][b' = b]_vars

\* A readiness probe succeeded on a plugin that was stopped and never
\* configured.
C5_Witness ==
    /\ ret.op = "CheckReady"
    /\ ret.err = "nil"
    /\ stopped
    /\ ~configured

\* ----------------------------------------------------------------------- C6
\* C6: GetMetadata always returns the empty metadata and GetCapabilities a
\* capability set with no flows; every read of the capabilities equals the
\* first one, whatever was called in between.
C6_QueriesIdempotent ==
    /\ ret.op = "GetMetadata" => (ret.err = "nil" /\ ret.value = EmptyMetadata)
    /\ ret.op = "GetCapabilities" =>
           /\ ret.err = "nil"
           /\ ret.value.flows = {}
           /\ ret.value = capsLog[1].value
    /\ \A i \in DOMAIN capsLog : capsLog[i].value = capsLog[1].value

\* The capabilities were read before and again after a Configure, and a Stop,
\* with the same result.
C6_Witness ==
    /\ Len(capsLog) = 2
    /\ ~capsLog[1].configured
    /\ capsLog[2].configured
    /\ stopped
    /\ ret.op = "GetCapabilities"
    /\ ret.value = capsLog[1].value

\* ----------------------------------------------------------------------- C7
\* C7: with two goroutines calling HandleRequest on one BasePlugin in any
\* interleaving, the verdict a caller holds carries the headers and the body
\* of its own request and shares nothing with the request of the other caller.
C7_ConcurrentCallsIndependent ==
    \A g \in Callers :
        (IsRequest(input[g]) /\ verdict[g] # NoMsg) =>
            /\ verdict[g].err = "nil"
            /\ verdict[g].value.headers = input[g].headers
            /\ verdict[g].value.body = input[g].body
            /\ \A h \in Callers \ {g} :
                   {verdict[g].value.headers, verdict[g].value.body}
                       \cap {Ref(h, "headers"), Ref(h, "body")} = {}

\* Two HandleRequest calls with different headers and bodies ran at the same
\* time and both have returned.
C7_Witness ==
    /\ overlap = Callers
    /\ \A g \in Callers : IsRequest(input[g]) /\ verdict[g] # NoMsg
    /\ heap[input["g1"].headers] # heap[input["g2"].headers]
    /\ heap[input["g1"].body] # heap[input["g2"].body]
    /\ \A g \in Callers : Deref(heap, verdict[g].value) = Deref(heap, input[g])

\* ----------------------------------------------------------------------- C8
\* C8 as stated: the verdict is a value of its own: an in-place write through
\* the verdict leaves what the input reads unchanged, and an in-place write
\* through the input leaves what the verdict reads unchanged.
C8_PassedByValue ==
    lastWrite.via # "none" =>
        LET g == lastWrite.g
        IN  /\ lastWrite.via = "verdict" =>
                   Deref(heap, input[g]) = lastWrite.input
            /\ (lastWrite.via = "input" /\ verdict[g] # NoMsg) =>
                   Deref(heap, verdict[g].value) = lastWrite.verdict

\* C8 as amended: the call leaves its input and the heap unchanged and
\* returns a new message, but the headers and the body of that message are
\* the very map and slice of the input, so that the two always read the same.
C8_SharedStorage ==
    /\ [](\A g \in Callers :
             verdict[g] # NoMsg =>
                 /\ verdict[g].value.headers = input[g].headers
                 /\ verdict[g].value.body = input[g].body
                 /\ Deref(heap, verdict[g].value) = Deref(heap, input[g]))
    /\ [][(frame' # frame) => (input' = input /\ heap' = heap)]_vars

\* A write through the verdict has changed what the input reads.
C8_Witness ==
    /\ lastWrite.via = "verdict"
    /\ Deref(heap, input[lastWrite.g]) # lastWrite.input
    /\ Deref(heap, input[lastWrite.g]) = Deref(heap, verdict[lastWrite.g].value)

\* ----------------------------------------------------------------------- C9
\* C9 as stated: once a signal was received, Serve eventually returns, even
\* with a call in flight that never completes.
C9_ReturnsWithinGracePeriod == SignalCaught ~> (pc = "returned")

\* C9 as amended: the wait has no bound.  Serve does not return while a call
\* is in flight, and it returns once the stop has begun and every call in
\* flight completes.
C9_ReturnsOnceCallsComplete ==
    /\ [](SignalCaught /\ pc \in {"defers", "returned"} =>
             \A c \in CallIds : calls[c] \notin {"running", "hung"})
    /\ (srvQuit /\ \A c \in CallIds : calls[c] # "hung") ~> (pc = "returned")

\* The stop waits for a call that never completes: the accept loop has ended,
\* GracefulStop and Serve are both blocked.
C9_Witness ==
    /\ gpc = "drain"
    /\ pc = "serveWait"
    /\ \E c \in CallIds : calls[c] = "hung"
    /\ \A c \in CallIds : calls[c] # "running"

\* ---------------------------------------------------------------------- C10
\* C10: a signal delivered after the listener was bound ends in a graceful
\* stop: when the run is over, Serve has returned nil and, for network unix,
\* the socket path is removed.
C10_SignalAlwaysGraceful ==
    (nsig > 0 /\ lis # "none" /\ ~Alive) =>
        /\ pc = "returned"
        /\ err = "nil"
        /\ network = "unix" => ~sockFile

====
